---- MODULE Spec2Model ----
(***************************************************************************)
(* A model of cmaputil.py: the J' bound finder (find_J_bounds), the linear *)
(* J' fits (correct_J) and their bounds test (_correct_J), the perceptual *)
(* lineariser (make_linear) and the distance helper (_find_distance).      *)
(*                                                                         *)
(* Numbers.  The J' values of the bound finder are IEEE doubles, held as   *)
(* limbs (see "Floating point" below).  RGB channel values are kept in     *)
(* ten-thousandths (1.0 is 10000, the tolerance 0.001 is 10).              *)
(***************************************************************************)
EXTENDS Integers, Sequences, FiniteSets

VARIABLES
    op,        \* which function of the module this run calls
    pc,        \* position inside the running function
    data,      \* find_J_bounds: the caller's array (shape and a'b' columns)
    m,         \* find_J_bounds: the working copy made at line 151
    minJ,      \* find_J_bounds: running lower bound
    maxJ,      \* find_J_bounds: running upper bound
    idx,       \* find_J_bounds: loop index i of line 158
    passed,    \* find_J_bounds: the list `passed` of the last pair scanned
    Jrow,      \* correct_J: the J' row m[0, :] of the caller's array
    ab_rows,   \* correct_J: the a'b' pair m[1:, i] of every index i
    low,       \* correct_J: lower J' bound of every index
    high,      \* correct_J: upper J' bound of every index
    col,       \* correct_J: loop index i of line 807
    caller,    \* correct_J: "correct_J" while its call of find_J_bounds runs
    line_fit,  \* _correct_J: the candidate line under test
    jab_in,    \* make_linear: the caller's a' and b' rows
    jab,       \* make_linear: the copy that is modified and returned
    l,         \* make_linear: number of points of the upsampled curve
    long_a,    \* make_linear: upsampled a' row
    long_b,    \* make_linear: upsampled b' row
    cum,       \* make_linear: the values total_length takes in lines 879-881
    total_length, \* make_linear: length of the upsampled curve
    jab_ind,   \* make_linear: last output index written
    long_ind,  \* make_linear: position on the upsampled curve
    d_this,    \* make_linear: distance walked so far
    src,       \* make_linear (history): upsampled index each output point is from
    p1,        \* _find_distance: first point
    p2,        \* _find_distance: second point
    val,       \* _valid_rgb: the number under test
    eps,       \* _valid_rgb: the tolerance e
    outcome    \* what the call gave back: a returned value or a raised error

boundVars == <<data, m, minJ, maxJ, idx, passed>>
fitVars == <<Jrow, ab_rows, low, high, col, caller, line_fit>>
linVars == <<jab_in, jab, l, long_a, long_b, cum, total_length, jab_ind,
             long_ind, d_this, src>>
distVars == <<p1, p2>>
rgbVars == <<val, eps>>
vars == <<op, pc, boundVars, fitVars, linVars, distVars, rgbVars, outcome>>

\* Python's None: the empty tuple, which is unequal to every number record,
\* row and array of the model
None == <<>>
NoOutcome == [kind |-> "running"]
Return(v) == [kind |-> "return", value |-> v]
Raise(e) == [kind |-> "raise", exc |-> e]


(***************************************************************************)
(* Floating point.  The J' of find_J_bounds are Python floats, and the     *)
(* loops of lines 163-169 and 179-185 compare values that repeated         *)
(* additions of 0.1 have rounded.  A non-negative double x below 128 is    *)
(* held as the whole number x * 2^56 in three limbs <<h, m, l>> of 21 bits *)
(* each (x * 2^56 = h * 2^42 + m * 2^21 + l); every double from 2^-4 up    *)
(* is such a whole number.  An addition is the exact sum rounded to 53     *)
(* significant bits, ties to even, as IEEE 754 does.                       *)
(***************************************************************************)
LimbBase == 2097152
UnitLimb == 16384

\* The double of a whole number n, and of n / 2
FromInt(n) == <<n * UnitLimb, 0, 0>>
FromHalves(n) == <<n * (UnitLimb \div 2), 0, 0>>

\* The double nearest to 0.1 (0x3FB999999999999A)
Tenth == <<1638, 838860, 1677722>>

FLess(x, y) ==
    \/ x[1] < y[1]
    \/ x[1] = y[1] /\ x[2] < y[2]
    \/ x[1] = y[1] /\ x[2] = y[2] /\ x[3] < y[3]
FLeq(x, y) == ~FLess(y, x)

\* Limbs with the carries taken out of m and l
Carry(c2, c1, c0) ==
    <<c2 + (c1 + c0 \div LimbBase) \div LimbBase,
      (c1 + c0 \div LimbBase) % LimbBase,
      c0 % LimbBase>>

\* The exact sum
FSum(x, y) == Carry(x[1] + y[1], x[2] + y[2], x[3] + y[3])

\* The number of low bits a sum loses: the sum keeps 53 bits from its
\* leading bit down, and bit 52 is bit 10 of the limb h.
LostBits(h) ==
    IF h < 1024 THEN 0
    ELSE CHOOSE k \in 0..10 : 1024 * 2^k <= h /\ h < 2048 * 2^k

\* Round to nearest, ties to even
FRound(s) ==
    LET q == 2^LostBits(s[1])
        r == s[3] % q
        up == 2 * r > q \/ (2 * r = q /\ (s[3] \div q) % 2 = 1)
    IN  IF up THEN Carry(s[1], s[2], s[3] - r + q)
        ELSE <<s[1], s[2], s[3] - r>>

\* x + y in floating point
FAdd(x, y) == FRound(FSum(x, y))

\* 100 x, exactly, and the comparisons of x with the decimal c / 100
Times100(x) == Carry(100 * x[1], 100 * x[2], 100 * x[3])
LeqDec(x, c) == FLeq(Times100(x), FromInt(c))
LessDec(x, c) == FLess(Times100(x), FromInt(c))

(***************************************************************************)
(* The colourspace converter (colorspacious, an external library) is not   *)
(* part of the repository.  An a'b' pair is represented by what the        *)
(* converter does with it: `gamut` is the set of closed J' intervals, with *)
(* ends in hundredths (1005 is 10.05), on which the pair converts to a     *)
(* displayable colour, `chan` is the RGB channel that leaves [0,1] outside *)
(* of them, and `nan` is the set of J' at which the conversion is not      *)
(* finite.  RGB channel values are in ten-thousandths.                     *)
(***************************************************************************)
\* An RGB channel value: a finite number, or not-a-number.
Num(v) == [fin |-> TRUE, v |-> v]
NaN == [fin |-> FALSE, v |-> 0]

InGamut(j, ab) == \E iv \in ab.gamut : ~LessDec(j, iv[1]) /\ LeqDec(j, iv[2])

cspace_convert(j, ab) ==
    IF j \in ab.nan THEN [c \in 1..3 |-> NaN]
    ELSE IF InGamut(j, ab) THEN [c \in 1..3 |-> Num(5000)]
    ELSE [c \in 1..3 |->
            IF c # ab.chan THEN Num(5000)
            ELSE IF \A iv \in ab.gamut : LessDec(j, iv[1]) THEN Num(-2000)
                 ELSE Num(12000)]

RgbOne == 10000
DefaultE == 10

isfinite(num) == num.fin

\* line 490
_valid_rgb(num, e) == isfinite(num) /\ num.v < (RgbOne + e) /\ num.v > -e

\* lines 103-119: the feasibility test of one J' against one a'b' pair
_find_J_bounds(j, ab) ==
    LET test_rgb == cspace_convert(j, ab)
    IN  _valid_rgb(test_rgb[1], DefaultE) /\ _valid_rgb(test_rgb[2], DefaultE)
            /\ _valid_rgb(test_rgb[3], DefaultE)

SearchLo == 0
SearchHi == 100
SingleHi == 100
CoarseStep == 5
MultiCols == 3

\* line 178: J = 0.5
SingleStart == FromHalves(1)

\* lines 169 and 185: the step 0.1
FineStep == Tenth

\* lines 166-168 and 182-184: the greedy run.  s = <<J, passed>>.
RECURSIVE GreedyRun(_, _)
GreedyRun(s, ab) ==
    CHOOSE r \in
        {IF _find_J_bounds(ahead, ab)
         THEN GreedyRun(<<ahead, Append(s[2], s[1])>>, ab)
         ELSE s : ahead \in {FAdd(s[1], FromInt(CoarseStep))}} : TRUE

\* lines 164-169 and 180-185: one pass through the body of the while loop
ScanBody(s, ab) ==
    CHOOSE r \in
        {<<FAdd(s2[1], FineStep), s2[2]>> :
            s2 \in {GreedyRun(IF _find_J_bounds(s[1], ab)
                               THEN <<s[1], Append(s[2], s[1])>> ELSE s, ab)}} :
        TRUE

\* The while loop of lines 163 and 179, run for at most `fuel` passes.
RECURSIVE ScanRun(_, _, _, _)
ScanRun(s, hi, ab, fuel) ==
    IF FLess(hi, s[1]) \/ fuel = 0 THEN s
    ELSE CHOOSE r \in {ScanRun(t, hi, ab, fuel - 1) : t \in {ScanBody(s, ab)}} :
            TRUE

ChunkLen == 10

\* ChunkLen runs of ChunkLen passes each
RECURSIVE ScanBlock(_, _, _, _)
ScanBlock(s, hi, ab, fuel) ==
    IF FLess(hi, s[1]) \/ fuel = 0 THEN s
    ELSE CHOOSE r \in
            {ScanBlock(t, hi, ab, fuel - 1) :
                t \in {ScanRun(s, hi, ab, ChunkLen)}} : TRUE

\* The while loop of lines 163 and 179 run to its end (in blocks of runs of
\* ChunkLen passes, which bounds the depth of the evaluation); the value is
\* `passed`.
RECURSIVE ScanLoop(_, _, _)
ScanLoop(s, hi, ab) ==
    IF FLess(hi, s[1]) THEN s[2]
    ELSE CHOOSE r \in
            {ScanLoop(t, hi, ab) : t \in {ScanBlock(s, hi, ab, ChunkLen)}} :
            TRUE

\* min and max of a non-empty list of floats
FMin(p, n) ==
    CHOOSE x \in {p[k] : k \in 1..n} : \A k \in 1..n : FLeq(x, p[k])

FMax(p, n) ==
    CHOOSE x \in {p[k] : k \in 1..n} : \A k \in 1..n : FLeq(p[k], x)

\* lines 175-187: the single-pair branch
SinglePair(ab) ==
    LET p == ScanLoop(<<SingleStart, <<>> >>, FromInt(SingleHi), ab)
    IN  IF p = <<>> THEN [passed |-> p, out |-> Raise("ValueError")]
        ELSE [passed |-> p,
              out |-> Return(<<FMin(p, Len(p)), FMax(p, Len(p))>>)]

\* lines 159-172 with the bounds of the pair taken as the new running
\* bounds, without the max and min against the old ones of lines 171-172
\* (mutant).
MultiPairNoClamp(lo, hi, ab) ==
    LET p == ScanLoop(<<lo, <<>> >>, hi, ab)
    IN  IF Len(p) > 0
        THEN [passed |-> p,
              minJ |-> FMin(p, Len(p)),
              maxJ |-> FMax(p, Len(p))]
        ELSE [passed |-> p, minJ |-> lo, maxJ |-> hi]

\* lines 159-172: one pass of the for loop, from the running bounds lo, hi
MultiPair(lo, hi, ab) ==
    LET p == ScanLoop(<<lo, <<>> >>, hi, ab)
    IN  IF Len(p) > 0
        THEN [passed |-> p,
              minJ |-> IF FLess(lo, FMin(p, Len(p)))
                       THEN FMin(p, Len(p)) ELSE lo,
              maxJ |-> IF FLess(FMax(p, Len(p)), hi)
                       THEN FMax(p, Len(p)) ELSE hi]
        ELSE [passed |-> p, minJ |-> lo, maxJ |-> hi]

(***************************************************************************)
(* Inputs of find_J_bounds.                                                *)
(***************************************************************************)
Pair(g, c, n) == [gamut |-> g, chan |-> c, nan |-> n]

PairFamily ==
    { Pair({}, 1, {}),                          \* never displayable
      Pair({<<1005, 2005>>}, 2, {}),            \* J' in [10.05, 20.05]
      Pair({<<5005, 10005>>}, 3, {}),           \* J' in [50.05, 100.05]
      Pair({<<305, 9505>>}, 1, {FromInt(0)}) }  \* J' in [3.05, 95.05]

MaxCols == 4

\* The columns of an array of n pairs: three pairs, repeated in turn
Columns(base, n) == [k \in 1..n |-> base[((k - 1) % 3) + 1]]

\* A J'a'b' array: ndim 1 is one (J', a', b') triple, as m[:, i] is; ndim 2
\* is a 3 x N array, one a'b' pair per column.
DataInputs ==
    {[ndim |-> 1, cols |-> <<ab>>] : ab \in PairFamily}
    \cup UNION {{[ndim |-> 2, cols |-> Columns(base, n)] :
                        base \in [1..3 -> PairFamily]}
                    : n \in 1..MaxCols}

IdleFit ==
    /\ Jrow = None /\ ab_rows = None /\ low = None /\ high = None
    /\ col = 0 /\ caller = "" /\ line_fit = None

IdleLin ==
    /\ jab_in = None /\ jab = None /\ l = 0 /\ long_a = None /\ long_b = None
    /\ cum = None /\ total_length = 0 /\ jab_ind = 0 /\ long_ind = 0
    /\ d_this = 0 /\ src = None

IdleDist == p1 = <<>> /\ p2 = <<>>

IdleRgb == val = None /\ eps = 0

InitBounds ==
    /\ op = "find_J_bounds"
    /\ pc = "call"
    /\ data \in DataInputs
    /\ m = None
    /\ minJ = None
    /\ maxJ = None
    /\ idx = 0
    /\ passed = <<>>
    /\ IdleFit
    /\ IdleLin
    /\ IdleDist
    /\ IdleRgb
    /\ outcome = NoOutcome

\* lines 147-155: copy the caller's array, set the starting bounds
FJB_Copy ==
    /\ op = "find_J_bounds" /\ pc = "call"
    /\ m' = data
    /\ minJ' = FromInt(SearchLo)
    /\ maxJ' = FromInt(SearchHi)
    /\ pc' = "dispatch"
    /\ UNCHANGED <<op, data, idx, passed, outcome>>
    /\ UNCHANGED <<fitVars, linVars, distVars, rgbVars>>

\* line 157 on a one-dimensional array: m.shape has no second entry
FJB_ShapeError ==
    /\ op = "find_J_bounds" /\ pc = "dispatch"
    /\ m.ndim = 1
    /\ outcome' = Raise("IndexError")
    /\ pc' = "done"
    /\ UNCHANGED <<op, data, m, minJ, maxJ, idx, passed>>
    /\ UNCHANGED <<fitVars, linVars, distVars, rgbVars>>

\* line 157, more than three columns: enter the for loop of line 158
FJB_EnterMulti ==
    /\ op = "find_J_bounds" /\ pc = "dispatch"
    /\ m.ndim = 2 /\ Len(m.cols) > MultiCols
    /\ idx' = 1
    /\ pc' = "multi"
    /\ UNCHANGED <<op, data, m, minJ, maxJ, passed, outcome>>
    /\ UNCHANGED <<fitVars, linVars, distVars, rgbVars>>

\* lines 158-172: one a'b' pair of the for loop
FJB_MultiPair ==
    /\ op = "find_J_bounds" /\ pc = "multi"
    /\ idx <= Len(m.cols)
    /\ \E r \in {MultiPair(minJ, maxJ, m.cols[idx])} :
           /\ passed' = r.passed
           /\ minJ' = r.minJ
           /\ maxJ' = r.maxJ
    /\ idx' = idx + 1
    /\ UNCHANGED <<op, pc, data, m, outcome>>
    /\ UNCHANGED <<fitVars, linVars, distVars, rgbVars>>

\* lines 189-191 after the for loop
FJB_MultiReturn ==
    /\ op = "find_J_bounds" /\ pc = "multi"
    /\ idx > Len(m.cols)
    /\ outcome' = Return(<<minJ, maxJ>>)
    /\ pc' = "done"
    /\ UNCHANGED <<op, data, m, minJ, maxJ, idx, passed>>
    /\ UNCHANGED <<fitVars, linVars, distVars, rgbVars>>

\* lines 174-191 on a 3 x 1 array: a and b are the one-element rows m[1], m[2]
FJB_SinglePair ==
    /\ op = "find_J_bounds" /\ pc = "dispatch"
    /\ m.ndim = 2 /\ Len(m.cols) = 1
    /\ \E r \in {SinglePair(m.cols[1])} :
           /\ passed' = r.passed
           /\ outcome' = r.out
           /\ IF r.out.kind = "return"
              THEN minJ' = r.out.value[1] /\ maxJ' = r.out.value[2]
              ELSE UNCHANGED <<minJ, maxJ>>
    /\ pc' = "done"
    /\ UNCHANGED <<op, data, m, idx>>
    /\ UNCHANGED <<fitVars, linVars, distVars, rgbVars>>

\* lines 174-180 on a 3 x 2 or 3 x 3 array: a and b are rows of several
\* values, and the test of line 116 has no single truth value
FJB_RowError ==
    /\ op = "find_J_bounds" /\ pc = "dispatch"
    /\ m.ndim = 2 /\ Len(m.cols) > 1 /\ Len(m.cols) <= MultiCols
    /\ outcome' = Raise("ValueError")
    /\ pc' = "done"
    /\ UNCHANGED <<op, data, m, minJ, maxJ, idx, passed>>
    /\ UNCHANGED <<fitVars, linVars, distVars, rgbVars>>

NextBounds ==
    \/ FJB_Copy
    \/ FJB_ShapeError
    \/ FJB_EnterMulti
    \/ FJB_MultiPair
    \/ FJB_MultiReturn
    \/ FJB_SinglePair
    \/ FJB_RowError

SpecBounds == InitBounds /\ [][NextBounds]_vars

(***************************************************************************)
(* Claims about find_J_bounds.                                             *)
(***************************************************************************)
FJB_Done == op = "find_J_bounds" /\ pc = "done"
FJB_Returned == FJB_Done /\ outcome.kind = "return"
FJB_RanSingle == FJB_Done /\ m.ndim = 2 /\ Len(m.cols) = 1
FJB_RanMulti == FJB_Done /\ m.ndim = 2 /\ Len(m.cols) > MultiCols

\* J' values across the range the scans test: the halves from 0 up to
\* 100 + 5.
ScanGrid == {FromHalves(k) : k \in 0..(2 * (SearchHi + CoarseStep))}
FeasibleJ(ab) == {j \in ScanGrid : _find_J_bounds(j, ab)}

\* C1: after the scan of a single pair, every J' in `passed` passes the
\* feasibility test for that pair, and so do both ends of the returned
\* interval.
C1_PassedAreFeasible ==
    (FJB_RanSingle /\ FJB_Returned) =>
        /\ \A k \in DOMAIN passed : _find_J_bounds(passed[k], m.cols[1])
        /\ _find_J_bounds(outcome.value[1], m.cols[1])
        /\ _find_J_bounds(outcome.value[2], m.cols[1])

\* C2: when find_J_bounds has scanned a set of pairs and no pair of the set
\* has a feasible J', it returns the NotFound value (None, None).
C2_NoFeasibleGivesNone ==
    (FJB_RanMulti /\ \A k \in DOMAIN m.cols : FeasibleJ(m.cols[k]) = {}) =>
        outcome = Return(<<None, None>>)

\* C3: the bound of a set of pairs lies inside the bound find_J_bounds
\* returns for each pair of the set alone.
C3_AggregateInsideEachPair ==
    (FJB_RanMulti /\ FJB_Returned) =>
        \A k \in DOMAIN m.cols :
            \E one \in {SinglePair(m.cols[k]).out} :
                one.kind = "return" =>
                    /\ FLeq(one.value[1], outcome.value[1])
                    /\ FLeq(outcome.value[2], one.value[2])

\* C4: when every pair has feasible J' but no J' is feasible for all of them,
\* find_J_bounds returns the NotFound value and not a numeric interval.
C4_DisjointGivesNone ==
    (/\ FJB_RanMulti
     /\ \A k \in DOMAIN m.cols : FeasibleJ(m.cols[k]) # {}
     /\ \A j \in ScanGrid : \E k \in DOMAIN m.cols : ~_find_J_bounds(j, m.cols[k])) =>
        outcome = Return(<<None, None>>)

\* C14: find_J_bounds ends without an error on every valid shape: on a
\* single (J', a', b') triple, as correct_J passes at line 808, it gives what
\* the single-pair scan gives for that pair, and on a 3 x N array with
\* N >= 2 it returns the bounds of the multi-pair aggregation.
C14_DispatchesOnEveryShape ==
    FJB_Done =>
        /\ m.ndim = 1 => outcome = SinglePair(m.cols[1]).out
        /\ (m.ndim = 2 /\ Len(m.cols) >= 2) => outcome.kind = "return"

\* C15: in the multi-pair loop the running interval always satisfies
\* 0 <= minJ <= maxJ <= 100; processing a pair leaves it inside the interval
\* held before, and a pair for which no J' was recorded leaves it unchanged.
C15_RunningIntervalNarrows ==
    /\ [](op = "find_J_bounds" /\ pc = "multi" =>
            /\ FLeq(FromInt(SearchLo), minJ)
            /\ FLeq(minJ, maxJ)
            /\ FLeq(maxJ, FromInt(SearchHi)))
    /\ [][(op = "find_J_bounds" /\ pc = "multi" /\ idx' = idx + 1) =>
            /\ FLeq(minJ, minJ') /\ FLeq(minJ', maxJ') /\ FLeq(maxJ', maxJ)
            /\ passed' = <<>> => (minJ' = minJ /\ maxJ' = maxJ)]_vars

\* The loop has narrowed the interval at both ends, and the pair processed
\* last recorded no J'.
C15_Witness ==
    /\ op = "find_J_bounds" /\ pc = "multi"
    /\ idx > 2
    /\ passed = <<>>
    /\ FLess(FromInt(SearchLo), minJ) /\ FLess(maxJ, FromInt(SearchHi))

(***************************************************************************)
(* correct_J, lines 801-864: the two linear J' fits.                       *)
(*                                                                         *)
(* The caller's array m is 3 x 256: its J' row (whole numbers here) and    *)
(* one a'b' pair per index.  Line 808 hands find_J_bounds the column       *)
(* m[:, i], a one-dimensional (J', a', b') triple; find_J_bounds reads     *)
(* m.shape[1] at line 157, which a one-dimensional array does not have,    *)
(* and the IndexError leaves correct_J through line 808.  No array gets    *)
(* past line 808, so lines 809-864 (the fits themselves) have no step.     *)
(***************************************************************************)
NPts == 256
Idx == 0..(NPts - 1)
Last == NPts - 1

RECURSIVE SumRange(_, _, _)
SumRange(f, lo, hi) ==
    IF lo = hi THEN f[lo]
    ELSE LET mid == (lo + hi) \div 2
         IN  SumRange(f, lo, mid) + SumRange(f, mid + 1, hi)
RatEq(x, y) == x[1] * y[2] = y[1] * x[2]

\* np.zeros((l)) of lines 805-806
zeros == [i \in Idx |-> FromInt(0)]

(***************************************************************************)
(* Inputs of correct_J.                                                    *)
(***************************************************************************)
Const(c) == [i \in Idx |-> c]
Ramp(first, last) == [i \in Idx |-> first + ((last - first) * i) \div Last]

TrajFamily ==
    { Const(10), Const(100), Ramp(0, 100), Ramp(100, 0), Ramp(90, 100),
      Ramp(60, 20) }

\* A pair displayable exactly for 5 <= J' <= 90
MidPair == Pair({<<500, 9000>>}, 2, {})

\* The a'b' pairs of the 256 indices: the same pair at every index, or one
\* pair on the first half and another on the second
ChromaFamily ==
    {Const(p) : p \in PairFamily \cup {MidPair}}
    \cup {[i \in Idx |-> IF 2 * i < NPts THEN MidPair ELSE p] : p \in PairFamily}

IdleBounds ==
    /\ data = None /\ m = None /\ minJ = None /\ maxJ = None
    /\ idx = 0 /\ passed = <<>>

InitFit ==
    /\ op = "correct_J"
    /\ pc = "call"
    /\ Jrow \in TrajFamily
    /\ ab_rows \in ChromaFamily
    /\ low = None
    /\ high = None
    /\ col = 0
    /\ caller = ""
    /\ line_fit = None
    /\ IdleBounds
    /\ IdleLin
    /\ IdleDist
    /\ IdleRgb
    /\ outcome = NoOutcome

\* lines 804-807: the arrays of bounds, the first pass of the for loop
CJ_Start ==
    /\ op = "correct_J" /\ pc = "call"
    /\ high' = zeros
    /\ low' = zeros
    /\ col' = 0
    /\ pc' = "bounds"
    /\ UNCHANGED <<op, Jrow, ab_rows, caller, line_fit, outcome>>
    /\ UNCHANGED <<boundVars, linVars, distVars, rgbVars>>

\* line 808, the call: find_J_bounds is entered with the column m[:, i]
CJ_CallBounds ==
    /\ op = "correct_J" /\ pc = "bounds"
    /\ col < NPts
    /\ op' = "find_J_bounds"
    /\ pc' = "call"
    /\ caller' = "correct_J"
    /\ data' = [ndim |-> 1, cols |-> <<ab_rows[col]>>]
    /\ m' = None
    /\ minJ' = None
    /\ maxJ' = None
    /\ idx' = 0
    /\ passed' = <<>>
    /\ UNCHANGED <<Jrow, ab_rows, low, high, col, line_fit, outcome>>
    /\ UNCHANGED <<linVars, distVars, rgbVars>>

\* line 808, the call has raised: the exception leaves correct_J
CJ_BoundsRaised ==
    /\ op = "find_J_bounds" /\ pc = "done"
    /\ caller = "correct_J"
    /\ outcome.kind = "raise"
    /\ op' = "correct_J"
    /\ pc' = "done"
    /\ caller' = ""
    /\ UNCHANGED <<Jrow, ab_rows, low, high, col, line_fit, outcome>>
    /\ UNCHANGED <<boundVars, linVars, distVars, rgbVars>>

NextFit ==
    \/ CJ_Start
    \/ CJ_CallBounds
    \/ FJB_Copy
    \/ FJB_ShapeError
    \/ CJ_BoundsRaised

SpecFit == InitFit /\ [][NextFit]_vars

(***************************************************************************)
(* Claims about correct_J.  What correct_J hands back at lines 832, 838,   *)
(* 858 and 864 is the pair <<m1, m2>>: each an array [J |-> the J' row,    *)
(* ab |-> the a'b' pairs], m2 possibly None.  The J' values of a returned  *)
(* row are doubles, as low and high are.                                   *)
(***************************************************************************)
CJ_Done == op = "correct_J" /\ pc = "done"
CJ_Returned == CJ_Done /\ outcome.kind = "return"
FitAOut == outcome.value[1]
FitBOut == outcome.value[2]

\* The scenario of C8: J' = 10 at every index, and at every index a pair
\* whose displayable J' are those from 5 to 90.
C8_Scenario == Jrow = Const(10) /\ ab_rows = Const(MidPair)

\* C8: in the scenario, correct_J hands back Fit A equal to 10 at every index
\* and no Fit B.
C8_ConstantGivesNoFitB ==
    (CJ_Done /\ C8_Scenario) =>
        /\ outcome.kind = "return"
        /\ \A i \in Idx : FitAOut.J[i] = FromInt(10)
        /\ FitBOut = None

(***************************************************************************)
(* _correct_J, lines 783-791: the bounds test that line 856 applies to     *)
(* every candidate line, and the only place a Fit B comes from.  It is     *)
(* called here on its own, with arrays of FitLen entries: low, high and    *)
(* the line are rows of finite doubles of one length, as lines 805-806     *)
(* and 844 make them, and the array is a float array, so that line 787     *)
(* stores the line unchanged.  The difference of two finite doubles is     *)
(* negative exactly when the first is the smaller.                         *)
(***************************************************************************)
FitLen == 2
FitIdx == 0..(FitLen - 1)

\* J' = 5, 50.5 and 90
FitValues == {FromInt(5), FromHalves(101), FromInt(90)}

\* The mutant of _correct_J that leaves out the test of line 785
_correct_J_UpperOnly(lo, hi, line, arr) ==
    LET test_upper == {i \in DOMAIN line : FLess(hi[i], line[i])}
    IN  IF Cardinality(test_upper) = 0
        THEN [J |-> line, ab |-> arr.ab]
        ELSE None

\* lines 784-791
_correct_J(lo, hi, line, arr) ==
    LET test_upper == {i \in DOMAIN line : FLess(hi[i], line[i])}
        test_lower == {i \in DOMAIN line : FLess(line[i], lo[i])}
    IN  IF Cardinality(test_upper) + Cardinality(test_lower) = 0
        THEN [J |-> line, ab |-> arr.ab]
        ELSE None

InitWithin ==
    /\ op = "_correct_J"
    /\ pc = "call"
    /\ Jrow = [i \in FitIdx |-> 10]
    /\ ab_rows = [i \in FitIdx |-> MidPair]
    /\ low \in [FitIdx -> FitValues]
    /\ high \in [FitIdx -> FitValues]
    /\ line_fit \in [FitIdx -> FitValues]
    /\ col = 0
    /\ caller = ""
    /\ IdleBounds
    /\ IdleLin
    /\ IdleDist
    /\ IdleRgb
    /\ outcome = NoOutcome

CW_Call ==
    /\ op = "_correct_J" /\ pc = "call"
    /\ outcome' = Return(_correct_J(low, high, line_fit,
                                    [J |-> Jrow, ab |-> ab_rows]))
    /\ pc' = "done"
    /\ UNCHANGED <<op, boundVars, fitVars, linVars, distVars, rgbVars>>

\* correct_J as a whole, and _correct_J on its own
InitWithinFit == InitFit \/ InitWithin
NextWithinFit == NextFit \/ CW_Call
SpecWithin == InitWithinFit /\ [][NextWithinFit]_vars

CW_Done == op = "_correct_J" /\ pc = "done"

\* C5: a Fit B that correct_J hands back lies between low[i] and high[i] at
\* every index i; so does the array that _correct_J hands back, which is
\* what line 858 returns as Fit B.
C5_FitBWithinBounds ==
    /\ (CJ_Returned /\ FitBOut # None) =>
           \A i \in DOMAIN low : /\ FLeq(low[i], FitBOut.J[i])
                                 /\ FLeq(FitBOut.J[i], high[i])
    /\ (CW_Done /\ outcome.value # None) =>
           \A i \in DOMAIN low : /\ FLeq(low[i], outcome.value.J[i])
                                 /\ FLeq(outcome.value.J[i], high[i])

\* _correct_J has handed back an array whose line lies strictly inside the
\* bounds at one index and on a bound at another
C5_Witness ==
    /\ CW_Done
    /\ outcome.value # None
    /\ outcome.value.J = line_fit
    /\ \E i \in FitIdx : FLess(low[i], line_fit[i]) /\ FLess(line_fit[i], high[i])
    /\ \E i \in FitIdx : line_fit[i] = low[i]

(***************************************************************************)
(* _find_distance, lines 460-470.  Points are tuples of integers; the      *)
(* inputs are chosen so that the sum of squares is a perfect square and    *)
(* the square root is exact.                                               *)
(***************************************************************************)
\* The exception class ValueError itself, as a value
ValueErrorClass == [class |-> "ValueError"]

sqrt(n) == CHOOSE r \in 0..n : r * r = n
IsSquare(n) == \E r \in 0..n : r * r = n

RECURSIVE SumSq(_, _, _)
SumSq(q1, q2, n) ==
    IF n = 0 THEN 0
    ELSE SumSq(q1, q2, n - 1) + (q2[n] - q1[n]) * (q2[n] - q1[n])

\* lines 460-470
_find_distance(q1, q2) ==
    IF Len(q1) # Len(q2) THEN Return(ValueErrorClass)
    ELSE Return(Num(sqrt(SumSq(q1, q2, Len(q1)))))

MaxDim == 3
MaxCoord == 3
Points == UNION {[1..n -> 0..MaxCoord] : n \in 1..MaxDim}

InitDist ==
    /\ op = "_find_distance"
    /\ pc = "call"
    /\ p1 \in Points
    /\ p2 \in Points
    /\ Len(p1) = Len(p2) => IsSquare(SumSq(p1, p2, Len(p1)))
    /\ IdleBounds
    /\ IdleFit
    /\ IdleLin
    /\ IdleRgb
    /\ outcome = NoOutcome

\* lines 460-470: one call
FD_Call ==
    /\ op = "_find_distance" /\ pc = "call"
    /\ outcome' = _find_distance(p1, p2)
    /\ pc' = "done"
    /\ UNCHANGED <<op, boundVars, fitVars, linVars, distVars, rgbVars>>

NextDist == FD_Call

SpecDist == InitDist /\ [][NextDist]_vars

\* C10: the distance of two points with different numbers of coordinates is
\* an error raised to the caller; nothing is returned.
C10_MismatchRaises ==
    (op = "_find_distance" /\ pc = "done" /\ Len(p1) # Len(p2)) =>
        outcome.kind = "raise"

(***************************************************************************)
(* make_linear, lines 868-903.                                             *)
(*                                                                         *)
(* The upsampled curve has l points with l - 1 = 255 K, so that np.interp  *)
(* is exact: upsampled point j lies at x = j / K.  long_a, long_b, the     *)
(* distances and d_this are kept multiplied by K; an entry of the rows of  *)
(* jab is a fraction <<n, d>>.  The curves are chosen so that every        *)
(* distance between neighbours is a whole number.                          *)
(***************************************************************************)
K(len) == (len - 1) \div Last

\* lines 874-876: np.interp(np.linspace(0, 255, l), range(256), row), times K
interp(len, row) ==
    [j \in 0..(len - 1) |->
        IF j % K(len) = 0 THEN K(len) * row[j \div K(len)]
        ELSE K(len) * row[j \div K(len)]
                + (row[j \div K(len) + 1] - row[j \div K(len)]) * (j % K(len))]

\* lines 880-881 and 889-892: distance of upsampled points j - 1 and j
Step(la, lb, j) ==
    _find_distance(<<la[j - 1], lb[j - 1]>>, <<la[j], lb[j]>>).value.v

\* lines 878-881: the values of total_length, before the loop and after
\* each pass
RunningLength(len, la, lb) ==
    CHOOSE c \in {[n \in 0..(len - 1) |->
                    IF n = 0 THEN 0 ELSE SumRange(seg, 1, n)] :
                  seg \in {[j \in 1..(len - 1) |-> Step(la, lb, j)]}} : TRUE

CurveFamily ==
    { [a |-> [i \in Idx |-> i], b |-> Const(0)],
      [a |-> [i \in Idx |-> 3 * i], b |-> [i \in Idx |-> 4 * i]],
      [a |-> Const(7), b |-> Const(2)],
      [a |-> [i \in Idx |-> IF i <= 200 THEN 0 ELSE 2 * (i - 200)],
       b |-> Const(0)],
      [a |-> [i \in Idx |-> IF i < 50 THEN 4 * i ELSE 200], b |-> Const(0)],
      [a |-> [i \in Idx |-> IF i < 128 THEN i ELSE 128 + 3 * (i - 128)],
       b |-> Const(0)],
      [a |-> Const(0), b |-> [i \in Idx |-> IF i = Last THEN 255 ELSE 0]],
      \* total length 525: d = 525 / 255 is not exact, and d * 51 is
      \* rounded to just below 105, midway between 104 and 106
      [a |-> [i \in Idx |-> IF i = Last THEN 525 ELSE 2 * i], b |-> Const(0)] }

Resamples == {256, 511}

\* The J' row of the inputs of make_linear, and a curve with that row
LinJ == Ramp(20, 80)
WithJ(c) == [J |-> LinJ, a |-> c.a, b |-> c.b]

\* np.copy of an array of whole numbers, as an array of fractions
copy(arr) ==
    [J |-> [i \in Idx |-> <<arr.J[i], 1>>],
     a |-> [i \in Idx |-> <<arr.a[i], 1>>],
     b |-> [i \in Idx |-> <<arr.b[i], 1>>]]

InitLin ==
    /\ op = "make_linear"
    /\ pc = "call"
    /\ jab_in \in {WithJ(c) : c \in CurveFamily}
    /\ l \in Resamples
    /\ jab = None /\ long_a = None /\ long_b = None
    /\ cum = None /\ total_length = 0 /\ jab_ind = 0 /\ long_ind = 0
    /\ d_this = 0 /\ src = None
    /\ IdleBounds
    /\ IdleFit
    /\ IdleDist
    /\ IdleRgb
    /\ outcome = NoOutcome

\* lines 870-887: copy, upsample, measure the curve, set the counters
ML_Setup ==
    /\ op = "make_linear" /\ pc = "call"
    /\ jab' = copy(jab_in)
    /\ \E la \in {interp(l, jab_in.a)}, lb \in {interp(l, jab_in.b)} :
        /\ long_a' = la
        /\ long_b' = lb
        /\ \E c \in {RunningLength(l, la, lb)} :
            /\ cum' = c
            /\ total_length' = c[l - 1]
    /\ jab_ind' = 0
    /\ long_ind' = 1
    /\ d_this' = 0
    /\ src' = [i \in Idx |-> i * K(l)]
    /\ pc' = "walk"
    /\ UNCHANGED <<op, jab_in, l, outcome>>
    /\ UNCHANGED <<boundVars, fitVars, distVars, rgbVars>>

(***************************************************************************)
(* The doubles of lines 882 and 897.  total_length, d_this and d_next are  *)
(* whole numbers below 2^13 here (held multiplied by K, a power of two,    *)
(* which a double's rounding does not see), so d = total_length / 255 is   *)
(* zero or at least 2^-8 and every double of line 897 is a whole multiple  *)
(* of 2^-60.  A double x is held as the whole number x * 2^60 in four      *)
(* limbs <<w0, w1, w2, w3>> of 21 bits each, lowest first.  A quotient, a   *)
(* product and a difference are the exact result rounded to 53            *)
(* significant bits, ties to even.                                         *)
(***************************************************************************)
WideBits == 21
WideScaleBits == 60
SigBits == 53

WNorm(c0, c1, c2, c3) ==
    <<c0 % LimbBase,
      (c1 + c0 \div LimbBase) % LimbBase,
      (c2 + (c1 + c0 \div LimbBase) \div LimbBase) % LimbBase,
      c3 + (c2 + (c1 + c0 \div LimbBase) \div LimbBase) \div LimbBase>>

WZero == <<0, 0, 0, 0>>

\* 2^k, and the double of a whole number n
WPow2(k) == [j \in 1..4 |-> IF j = (k \div WideBits) + 1
                            THEN 2^(k % WideBits) ELSE 0]
WFromInt(n) == WNorm(0, 0, n * 2^(WideScaleBits - 2 * WideBits), 0)

WLess(x, y) ==
    \E j \in 1..4 : x[j] < y[j] /\ \A j2 \in (j + 1)..4 : x[j2] = y[j2]

WAdd(x, y) == WNorm(x[1] + y[1], x[2] + y[2], x[3] + y[3], x[4] + y[4])

\* x - y for y <= x
WBorrow(x, y, j) == \E j2 \in 1..j : x[j2] < y[j2]
                        /\ \A j3 \in (j2 + 1)..j : x[j3] = y[j3]
WSub(x, y) ==
    [j \in 1..4 |->
        (x[j] - y[j] - (IF j > 1 /\ WBorrow(x, y, j - 1) THEN 1 ELSE 0)
            + LimbBase) % LimbBase]

\* |x - y|
WDist(x, y) == IF WLess(x, y) THEN WSub(y, x) ELSE WSub(x, y)

WMulSmall(x, c) == WNorm(c * x[1], c * x[2], c * x[3], c * x[4])

\* x divided by the small whole number c: quotient and remainder
WDivSmall(x, c) ==
    LET r4 == x[4] % c
        t3 == r4 * LimbBase + x[3]
        t2 == (t3 % c) * LimbBase + x[2]
        t1 == (t2 % c) * LimbBase + x[1]
    IN  [quot |-> <<t1 \div c, t2 \div c, t3 \div c, x[4] \div c>>,
         rem |-> t1 % c]

\* Number of bits of x
LimbLen(v) == IF v = 0 THEN 0
              ELSE CHOOSE k \in 1..31 : 2^(k - 1) <= v /\ (k = 31 \/ v < 2^k)
WBitLen(x) ==
    IF x = WZero THEN 0
    ELSE LET top == CHOOSE j \in 1..4 : x[j] # 0 /\ \A j2 \in (j + 1)..4 : x[j2] = 0
         IN  WideBits * (top - 1) + LimbLen(x[top])

\* x mod 2^k, and bit k of x
WLowBits(x, k) ==
    [j \in 1..4 |-> IF j < (k \div WideBits) + 1 THEN x[j]
                    ELSE IF j = (k \div WideBits) + 1
                         THEN x[j] % 2^(k % WideBits) ELSE 0]
WBit(x, k) == (x[(k \div WideBits) + 1] \div 2^(k % WideBits)) % 2

\* Round to nearest, ties to even, of x + num / den to SigBits significant
\* bits, for whole numbers 0 <= num < den
WRound(x, num, den) ==
    IF WBitLen(x) < SigBits THEN x
    ELSE LET k == WBitLen(x) - SigBits
             dropped == WLowBits(x, k)
             kept == WSub(x, dropped)
             up == IF k = 0
                   THEN 2 * num > den \/ (2 * num = den /\ WBit(x, 0) = 1)
                   ELSE \/ WLess(WPow2(k - 1), dropped)
                        \/ /\ dropped = WPow2(k - 1)
                           /\ (num > 0 \/ WBit(x, k) = 1)
         IN  IF up THEN WAdd(kept, WPow2(k)) ELSE kept

\* line 882: total / c in doubles, for whole numbers total and c
FDiv(total, c) ==
    LET qr == WDivSmall(WFromInt(total), c)
    IN  WRound(qr.quot, qr.rem, c)

\* d * n in doubles, for a double d and a whole number n
FMulInt(d, n) == WRound(WMulSmall(d, n), 0, 1)

\* abs(p - v) in doubles, for a double p and a whole number v
FAbsDiff(p, v) == WRound(WDist(p, WFromInt(v)), 0, 1)

\* lines 882 and 897: with d = total_length / 255, is the distance walked
\* closer to the next multiple of d than it is one point further on?
IsMinimum(total, ind, this, next) ==
    \E p \in {FMulInt(FDiv(total, Last), ind + 1)} :
        WLess(FAbsDiff(p, this), FAbsDiff(p, next))

\* lines 888-901 with the point written at jab_ind before the increment of
\* line 898 (mutant).
ML_Walk_WriteBeforeStep ==
    /\ op = "make_linear" /\ pc = "walk"
    /\ jab_ind < NPts - 2 /\ long_ind < l - 1
    /\ \E test_d1 \in {Step(long_a, long_b, long_ind)},
          test_d2 \in {Step(long_a, long_b, long_ind + 1)} :
        /\ d_this' = d_this + test_d1
        /\ IF IsMinimum(total_length, jab_ind, d_this + test_d1,
                        d_this + test_d1 + test_d2)
           THEN /\ jab_ind' = jab_ind + 1
                /\ jab' = [jab EXCEPT
                             !.a[jab_ind] = <<long_a[long_ind], K(l)>>,
                             !.b[jab_ind] = <<long_b[long_ind], K(l)>>]
                /\ src' = [src EXCEPT ![jab_ind] = long_ind]
           ELSE UNCHANGED <<jab_ind, jab, src>>
    /\ long_ind' = long_ind + 1
    /\ UNCHANGED <<op, pc, jab_in, l, long_a, long_b, cum, total_length,
                   outcome>>
    /\ UNCHANGED <<boundVars, fitVars, distVars, rgbVars>>

\* lines 888-901: one pass of the while loop
ML_Walk ==
    /\ op = "make_linear" /\ pc = "walk"
    /\ jab_ind < NPts - 2 /\ long_ind < l - 1
    /\ \E test_d1 \in {Step(long_a, long_b, long_ind)},
          test_d2 \in {Step(long_a, long_b, long_ind + 1)} :
        /\ d_this' = d_this + test_d1
        /\ IF IsMinimum(total_length, jab_ind, d_this + test_d1,
                        d_this + test_d1 + test_d2)
           THEN /\ jab_ind' = jab_ind + 1
                /\ jab' = [jab EXCEPT
                             !.a[jab_ind + 1] = <<long_a[long_ind], K(l)>>,
                             !.b[jab_ind + 1] = <<long_b[long_ind], K(l)>>]
                /\ src' = [src EXCEPT ![jab_ind + 1] = long_ind]
           ELSE UNCHANGED <<jab_ind, jab, src>>
    /\ long_ind' = long_ind + 1
    /\ UNCHANGED <<op, pc, jab_in, l, long_a, long_b, cum, total_length,
                   outcome>>
    /\ UNCHANGED <<boundVars, fitVars, distVars, rgbVars>>

\* lines 888, 903: the loop is over, return the modified copy
ML_Return ==
    /\ op = "make_linear" /\ pc = "walk"
    /\ ~(jab_ind < NPts - 2 /\ long_ind < l - 1)
    /\ outcome' = Return(jab)
    /\ pc' = "done"
    /\ UNCHANGED <<op, linVars>>
    /\ UNCHANGED <<boundVars, fitVars, distVars, rgbVars>>

NextLin ==
    \/ ML_Setup
    \/ ML_Walk
    \/ ML_Return

SpecLin == InitLin /\ [][NextLin]_vars

\* Arc-length position of output point i: the length of the upsampled curve
\* up to the upsampled point the output point was taken from.
ArcPos(i) == cum[src[i]]

\* C9: in the result of make_linear the arc-length positions of the output
\* points 0 .. 255 never decrease with the index, also when the upsampled
\* curve ran out before 254 interior points were written.
C9_ArcPositionsMonotone ==
    (op = "make_linear" /\ pc = "done") =>
        \A i \in 0..(Last - 1) : ArcPos(i) <= ArcPos(i + 1)

(***************************************************************************)
(* _valid_rgb, lines 485-490, called on its own.  Values and tolerances    *)
(* are in ten-thousandths, as above.                                       *)
(***************************************************************************)
\* The infinities: not finite, like not-a-number
PosInf == [fin |-> FALSE, v |-> 1]
NegInf == [fin |-> FALSE, v |-> -1]

MaxE == 20

\* The tolerances tried (the default 0.001 is among them) and the values
\* tried: all values around both ends of [-e, 1 + e], one inside, and the
\* three values that are not finite.
Tolerances == 0..MaxE
RgbValues ==
    {Num(v) : v \in ((0 - MaxE - 2)..(MaxE + 2))
                    \cup ((RgbOne - MaxE - 2)..(RgbOne + MaxE + 2))
                    \cup {RgbOne \div 2}}
    \cup {NaN, PosInf, NegInf}

InitRgb ==
    /\ op = "_valid_rgb"
    /\ pc = "call"
    /\ val \in RgbValues
    /\ eps \in Tolerances
    /\ IdleBounds
    /\ IdleFit
    /\ IdleLin
    /\ IdleDist
    /\ outcome = NoOutcome

\* lines 485-490: one call
VR_Call ==
    /\ op = "_valid_rgb" /\ pc = "call"
    /\ outcome' = Return(_valid_rgb(val, eps))
    /\ pc' = "done"
    /\ UNCHANGED <<op, boundVars, fitVars, linVars, distVars, rgbVars>>

NextRgb == VR_Call

SpecRgb == InitRgb /\ [][NextRgb]_vars

\* C11: _valid_rgb returns true exactly for the finite values v with
\* -e <= v <= 1 + e, both ends included, and false for every value that is
\* not finite.
C11_ValidIffInClosedInterval ==
    (op = "_valid_rgb" /\ pc = "done") =>
        outcome.value = (/\ val.fin
                         /\ 0 - eps <= val.v
                         /\ val.v <= RgbOne + eps)

(***************************************************************************)
(* The three functions that are handed a J'a'b' array, side by side: a run *)
(* is one call of find_J_bounds, of correct_J or of make_linear.  The      *)
(* caller's array is `data`, `Jrow` with `ab_rows`, and `jab_in`; inside   *)
(* correct_J, `data` is the column that line 808 hands to find_J_bounds.   *)
(***************************************************************************)
InitArrays == InitBounds \/ InitFit \/ InitLin

NextArrays ==
    \/ NextBounds
    \/ NextFit
    \/ NextLin

SpecArrays == InitArrays /\ [][NextArrays]_vars

SameRow(row, orig) ==
    /\ DOMAIN row = DOMAIN orig
    /\ \A i \in DOMAIN orig : RatEq(row[i], <<orig[i], 1>>)

\* C16: no step of find_J_bounds, correct_J or make_linear changes the
\* array it was handed.  The result of make_linear has as many points as
\* its input, the same J' row, and the same first and last point; the
\* arrays that correct_J returns have the a'b' pairs of its input.
C16_InputKeptResultFramed ==
    /\ [][/\ op = "find_J_bounds" => data' = data
          /\ Jrow' = Jrow /\ ab_rows' = ab_rows
          /\ jab_in' = jab_in]_vars
    /\ []((op = "make_linear" /\ pc = "done") =>
            /\ SameRow(outcome.value.J, jab_in.J)
            /\ DOMAIN outcome.value.a = DOMAIN jab_in.a
            /\ DOMAIN outcome.value.b = DOMAIN jab_in.b
            /\ \A i \in {0, Last} :
                /\ RatEq(outcome.value.a[i], <<jab_in.a[i], 1>>)
                /\ RatEq(outcome.value.b[i], <<jab_in.b[i], 1>>))
    /\ [](CJ_Returned =>
            /\ FitAOut.ab = ab_rows
            /\ FitBOut # None => FitBOut.ab = ab_rows)

\* make_linear has returned a curve with an interior point moved.
C16_Witness ==
    /\ op = "make_linear" /\ pc = "done"
    /\ \E i \in 1..(Last - 1) :
           ~RatEq(outcome.value.a[i], <<jab_in.a[i], 1>>)

====
